---- MODULE Spec2Model ----
(***************************************************************************)
(* Banking-deposits dashboard: the data access layer                       *)
(* (streamlit_app/utils/data_loader.py) and the page scripts that use it.  *)
(*                                                                         *)
(* Two specifications share the state:                                     *)
(*   CalcSpec  the pure functions and the page computations, over every    *)
(*             table of at most MaxRows rows drawn from RowPool;           *)
(*   Spec      the loaders, their process-wide caches and the page         *)
(*             scripts as a sequence of script runs in one process.        *)
(*                                                                         *)
(* Numbers.  pandas/numpy floating point is modelled by exact non-negative *)
(* rationals extended with inf and nan (IEEE-754 division by zero gives    *)
(* inf or nan and raises nothing); rounding error is not modelled.         *)
(***************************************************************************)
EXTENDS Integers, Sequences, FiniteSets, TLC

(* ------------------------------ bounds --------------------------------- *)
MaxRows == 3
MaxReads == 3
MaxRuns == 3

(* ------------------------- program constants --------------------------- *)
\* st.slider("Number of scenarios to compare", 2, 4, 2)
MinScenarios == 2
MaxScenarios == 4
\* st.slider("Show top N models", 5, len(comparison_df), 15)
MinTopN == 5
DefaultTopN == 15

(* --------------------------- Python values ----------------------------- *)
\* Python's None where a label (a string) is expected.
None == "<None>"

\* A rendered message: its text and, for a loader's error, the artifact.
Msg(text) == << text, "" >>

\* Truth value of an optional string: None and "" are falsy.
Truthy(x) == x # None /\ x # ""

\* The elements of a list.
Elems(seq) == { seq[i] : i \in 1..Len(seq) }

(* ------------------- floats: rationals with inf, nan ------------------- *)
RECURSIVE Gcd(_, _)
Gcd(a, b) == IF b = 0 THEN a ELSE Gcd(b, a % b)

NaN == [k |-> "nan", n |-> 0, d |-> 0]
Inf == [k |-> "inf", n |-> 1, d |-> 0]
Frac(a, b) == LET g == Gcd(a, b) IN [k |-> "fin", n |-> a \div g, d |-> b \div g]
Int2F(a) == [k |-> "fin", n |-> a, d |-> 1]
Half == Frac(1, 2)

\* x / y on non-negative floats: a zero divisor gives inf (nan for 0/0).
FDiv(x, y) ==
    IF x.k = "nan" \/ y.k = "nan" THEN NaN
    ELSE IF x.k = "inf" THEN (IF y.k = "inf" THEN NaN ELSE Inf)
    ELSE IF y.k = "inf" THEN Int2F(0)
    ELSE IF y.n = 0 THEN (IF x.n = 0 THEN NaN ELSE Inf)
    ELSE Frac(x.n * y.d, x.d * y.n)

FMul(x, y) ==
    IF x.k = "nan" \/ y.k = "nan" THEN NaN
    ELSE IF x.k = "inf" THEN (IF y.k = "fin" /\ y.n = 0 THEN NaN ELSE Inf)
    ELSE IF y.k = "inf" THEN (IF x.n = 0 THEN NaN ELSE Inf)
    ELSE Frac(x.n * y.n, x.d * y.d)

FAdd(x, y) ==
    IF x.k = "nan" \/ y.k = "nan" THEN NaN
    ELSE IF x.k = "inf" \/ y.k = "inf" THEN Inf
    ELSE Frac(x.n * y.d + y.n * x.d, x.d * y.d)

(* ------------------------------ tables --------------------------------- *)
\* A DataFrame is the sequence of its rows; rid is the row's index label
\* (read_csv numbers the rows 0, 1, 2, ... and selections keep the labels).
Row(pg, rg, st, di, o, a, d) ==
    [population_group |-> pg, region |-> rg, state_name |-> st,
     district_name |-> di, no_of_offices |-> o, no_of_accounts |-> a,
     deposit_amount |-> d]

\* The three rows of the documented example and a row without accounts.
RowPool ==
    { Row("Rural", "East", "Bihar", "Patna", 2, 20, 1000),
      Row("Rural", "East", "Odisha", "Puri", 3, 45, 2000),
      Row("Urban", "West", "Goa", "Panaji", 5, 100, 9000),
      Row("Metropolitan", "East", "Bihar", "Gaya", 1, 0, 500) }

WithRid(r, i) ==
    [rid |-> i, population_group |-> r.population_group, region |-> r.region,
     state_name |-> r.state_name, district_name |-> r.district_name,
     no_of_offices |-> r.no_of_offices, no_of_accounts |-> r.no_of_accounts,
     deposit_amount |-> r.deposit_amount]

Index(rows) == [i \in 1..Len(rows) |-> WithRid(rows[i], i - 1)]

\* Every table of at most MaxRows distinct rows of RowPool, in every order.
Tables ==
    UNION { { Index(s) : s \in { t \in [1..n -> RowPool] :
                                   \A i, j \in 1..n : t[i] = t[j] => i = j } }
            : n \in 0..MaxRows }

ExampleTable ==
    Index(<< Row("Rural", "East", "Bihar", "Patna", 2, 20, 1000),
             Row("Rural", "East", "Odisha", "Puri", 3, 45, 2000),
             Row("Urban", "West", "Goa", "Panaji", 5, 100, 9000) >>)

\* Python's sorted() on labels: code-point order, here the order of Labels.
Labels == << "Bihar", "East", "Gaya", "Goa", "Odisha", "Panaji", "Patna",
             "Puri", "West" >>
Rank(l) == CHOOSE i \in 1..Len(Labels) : Labels[i] = l
RECURSIVE Sorted(_)
Sorted(S) ==
    IF S = {} THEN << >>
    ELSE LET m == CHOOSE x \in S : \A y \in S : Rank(x) <= Rank(y)
         IN  << m >> \o Sorted(S \ {m})

\* An empty cell of a label column: read_csv yields the float nan.
NaNLabel == "<nan>"

\* sorted() compares its elements with <, which raises TypeError between a
\* float and a str; a single element is compared with nothing.
SortedRaises(S) == NaNLabel \in S /\ S # {NaNLabel}
PySorted(S) == IF S = {NaNLabel} THEN << NaNLabel >> ELSE Sorted(S)

(* --------------------------- pandas helpers ---------------------------- *)
\* df[df[col] == value]: the rows whose label matches, in their order, with
\* their index labels.
SelectEq(rows, col, value) == SelectSeq(rows, LAMBDA r : r[col] = value)

\* Series.sum(): 0 on an empty column.
RECURSIVE ColSum(_, _)
ColSum(rows, col) ==
    IF rows = << >> THEN 0 ELSE rows[1][col] + ColSum(Tail(rows), col)

\* Series.mean(): nan on an empty column (no division is evaluated).
ColMean(rows, col) ==
    IF Len(rows) = 0 THEN NaN ELSE Frac(ColSum(rows, col), Len(rows))

\* Series.unique() as a set, Series.nunique() as its size.
ColUnique(rows, col) == { rows[i][col] : i \in 1..Len(rows) }
ColNUnique(rows, col) == Cardinality(ColUnique(rows, col))

\* Series.max() of a non-empty column.
ColMax(rows, col) ==
    CHOOSE m \in { rows[i][col] : i \in 1..Len(rows) } :
        \A i \in 1..Len(rows) : rows[i][col] <= m

\* DataFrame.sort_values(by, ascending) with the default kind='quicksort':
\* the rows in the order of the column; the sort is not stable, so rows of
\* equal value come out in any order.  Every outcome is in the set.
sort_values(rows, by, ascending) ==
    LET n == Len(rows)
        perms == { p \in [1..n -> 1..n] : \A i, j \in 1..n : p[i] = p[j] => i = j }
        ordered(p) == \A i \in 1..(n - 1) :
                          IF ascending THEN rows[p[i]][by] <= rows[p[i + 1]][by]
                          ELSE rows[p[i]][by] >= rows[p[i + 1]][by]
    IN  { [i \in 1..n |-> rows[p[i]]] : p \in { q \in perms : ordered(q) } }

\* DataFrame.head(n): the first n rows, all of them when there are fewer.
head(rows, n) == SubSeq(rows, 1, IF n < Len(rows) THEN n ELSE Len(rows))

\* .round(2) of a float: two decimals, halves to the even neighbour; inf
\* and nan stay.
Round2(x) ==
    IF x.k # "fin" THEN x
    ELSE LET q == (100 * x.n) \div x.d
             r == (100 * x.n) % x.d
             up == 2 * r > x.d \/ (2 * r = x.d /\ q % 2 = 1)
         IN  Frac(IF up THEN q + 1 ELSE q, 100)

\* Series.median(): the middle value of the sorted column, the mean of the
\* two middle values for an even count, nan for none.
ColMedian(rows, col) ==
    LET n == Len(rows)
        s == CHOOSE x \in sort_values(rows, col, TRUE) : TRUE
    IN  IF n = 0 THEN NaN
        ELSE IF n % 2 = 1 THEN Int2F(s[(n + 1) \div 2][col])
        ELSE Frac(s[n \div 2][col] + s[n \div 2 + 1][col], 2)

\* A groupby that takes the mean for the median.
groupby_agg_nomedian(df, by) ==
    [df |-> df,
     pop_stats |->
        [g \in ColUnique(df, by) |->
            LET grp == SelectEq(df, by, g)
            IN  [count |-> Len(grp),
                 sum |-> ColSum(grp, "deposit_amount"),
                 mean |-> Round2(ColMean(grp, "deposit_amount")),
                 median |-> Round2(ColMean(grp, "deposit_amount"))]]]

\* df.groupby(by).agg({'deposit_amount': ['count', 'sum', 'mean',
\* 'median']}).round(2): one entry per label of the column, computed over
\* the rows of that label; the table itself is only read.
groupby_agg(df, by) ==
    [df |-> df,
     pop_stats |->
        [g \in ColUnique(df, by) |->
            LET grp == SelectEq(df, by, g)
            IN  [count |-> Len(grp),
                 sum |-> ColSum(grp, "deposit_amount"),
                 mean |-> Round2(ColMean(grp, "deposit_amount")),
                 median |-> Round2(ColMedian(grp, "deposit_amount"))]]]

(* ------------------------ DataFrame.corr() ----------------------------- *)
\* A correlation coefficient is a real number in [-1, 1]; it is kept exact
\* as its sign and its square, nan as CorrNaN.
CorrNaN == [k |-> "nan", sign |-> 0, sq |-> Frac(0, 1)]
CorrOne == [k |-> "fin", sign |-> 1, sq |-> Frac(1, 1)]

Abs(x) == IF x < 0 THEN 0 - x ELSE x

\* The deviations of a column from its mean, up to a positive factor (the
\* coefficient does not depend on it): n * x[i] - sum(x), reduced by the
\* common divisor.
RECURSIVE GcdSeq(_)
GcdSeq(v) == IF v = << >> THEN 0 ELSE Gcd(Abs(v[1]), GcdSeq(Tail(v)))
Deviations(rows, col) ==
    LET n == Len(rows)
        dev == [i \in 1..n |-> n * rows[i][col] - ColSum(rows, col)]
        g == GcdSeq(dev)
    IN  IF g = 0 THEN dev ELSE [i \in 1..n |-> dev[i] \div g]

RECURSIVE Dot(_, _)
Dot(u, v) == IF u = << >> THEN 0 ELSE u[1] * v[1] + Dot(Tail(u), Tail(v))

\* Pearson's coefficient of two columns: covxy / sqrt(ssqdm_x * ssqdm_y),
\* nan when there is no row or the divisor is 0.
pearson(rows, x, y) ==
    LET u == Deviations(rows, x)
        v == Deviations(rows, y)
        covxy == Dot(u, v)
        ssqdm_x == Dot(u, u)
        ssqdm_y == Dot(v, v)
    IN  IF Len(rows) = 0 \/ ssqdm_x = 0 \/ ssqdm_y = 0 THEN CorrNaN
        ELSE [k |-> "fin",
              sign |-> IF covxy > 0 THEN 1 ELSE IF covxy < 0 THEN 0 - 1 ELSE 0,
              sq |-> Frac(covxy * covxy, ssqdm_x * ssqdm_y)]

numerical_features == << "no_of_offices", "no_of_accounts", "deposit_amount" >>

\* A matrix whose entry [a, b] is the slope of b on a, covxy / ssqdm_x,
\* in place of the coefficient.
corr_slope(rows, columns) ==
    [a \in Elems(columns), b \in Elems(columns) |->
        LET u == Deviations(rows, a)
            v == Deviations(rows, b)
        IN  IF Len(rows) = 0 \/ Dot(u, u) = 0 \/ Dot(v, v) = 0 THEN CorrNaN
            ELSE [k |-> "fin",
                  sign |-> IF Dot(u, v) > 0 THEN 1
                           ELSE IF Dot(u, v) < 0 THEN 0 - 1 ELSE 0,
                  sq |-> Frac(GcdSeq([i \in 1..Len(rows) |->
                                        Len(rows) * rows[i][b] - ColSum(rows, b)]),
                              GcdSeq([i \in 1..Len(rows) |->
                                        Len(rows) * rows[i][a] - ColSum(rows, a)]))]]

\* df[columns].corr(): the coefficient is computed for each pair of columns
\* a <= b in column order and stored at [a, b] and at [b, a].
corr(rows, columns) ==
    LET idx(c) == CHOOSE i \in 1..Len(columns) : columns[i] = c
    IN  [a \in Elems(columns), b \in Elems(columns) |->
            IF idx(a) <= idx(b) THEN pearson(rows, a, b) ELSE pearson(rows, b, a)]

(* ---------------------- data_loader: pure functions -------------------- *)
get_population_groups == << "Metropolitan", "Urban", "Semi-urban", "Rural" >>

\* A filter_data that selects in place: the caller's table is replaced by
\* the selection.
filter_data_inplace(df, population_group, region, state) ==
    LET f1 == IF Truthy(population_group) /\ population_group # "All"
              THEN SelectEq(df, "population_group", population_group) ELSE df
        f2 == IF Truthy(region) /\ region # "All"
              THEN SelectEq(f1, "region", region) ELSE f1
        f3 == IF Truthy(state) /\ state # "All"
              THEN SelectEq(f2, "state_name", state) ELSE f2
    IN  [df |-> f3, filtered_df |-> f3]

\* A filter_data whose region test is nested in the population-group test.
filter_data_nested(df, population_group, region, state) ==
    LET f1 == IF Truthy(population_group) /\ population_group # "All"
              THEN SelectEq(df, "population_group", population_group) ELSE df
        f2 == IF Truthy(population_group) /\ Truthy(region) /\ region # "All"
              THEN SelectEq(f1, "region", region) ELSE f1
        f3 == IF Truthy(state) /\ state # "All"
              THEN SelectEq(f2, "state_name", state) ELSE f2
    IN  [df |-> df, filtered_df |-> f3]

\* filter_data(df, population_group, region, state): the table passed in
\* after the call (df) and the table returned (filtered_df).
filter_data(df, population_group, region, state) ==
    LET f0 == df                                           \* df.copy()
        f1 == IF Truthy(population_group) /\ population_group # "All"
              THEN SelectEq(f0, "population_group", population_group) ELSE f0
        f2 == IF Truthy(region) /\ region # "All"
              THEN SelectEq(f1, "region", region) ELSE f1
        f3 == IF Truthy(state) /\ state # "All"
              THEN SelectEq(f2, "state_name", state) ELSE f2
    IN  [df |-> df, filtered_df |-> f3]

\* A get_summary_stats whose mean divides by the number of distinct states.
get_summary_stats_bystate(df) ==
    [total_records    |-> Len(df),
     total_deposits   |-> ColSum(df, "deposit_amount"),
     avg_deposits     |-> FDiv(Int2F(ColSum(df, "deposit_amount")),
                               Int2F(ColNUnique(df, "state_name"))),
     total_offices    |-> ColSum(df, "no_of_offices"),
     total_accounts   |-> ColSum(df, "no_of_accounts"),
     unique_states    |-> ColNUnique(df, "state_name"),
     unique_districts |-> ColNUnique(df, "district_name")]

\* A get_summary_stats that reports one record for an empty table.
get_summary_stats_atleast1(df) ==
    [total_records    |-> IF Len(df) = 0 THEN 1 ELSE Len(df),
     total_deposits   |-> ColSum(df, "deposit_amount"),
     avg_deposits     |-> ColMean(df, "deposit_amount"),
     total_offices    |-> ColSum(df, "no_of_offices"),
     total_accounts   |-> ColSum(df, "no_of_accounts"),
     unique_states    |-> ColNUnique(df, "state_name"),
     unique_districts |-> ColNUnique(df, "district_name")]

get_summary_stats(df) ==
    [total_records    |-> Len(df),
     total_deposits   |-> ColSum(df, "deposit_amount"),
     avg_deposits     |-> ColMean(df, "deposit_amount"),
     total_offices    |-> ColSum(df, "no_of_offices"),
     total_accounts   |-> ColSum(df, "no_of_accounts"),
     unique_states    |-> ColNUnique(df, "state_name"),
     unique_districts |-> ColNUnique(df, "district_name")]
(* ------------------- data_loader: category getters --------------------- *)
\* get_regions / get_states / get_districts on a loaded table.
\* Series.unique() keeps nan as a value of its own; the getters sort what
\* it returns.  X_raises: the call ends in the TypeError of sorted().
get_regions_raises(df) == SortedRaises(ColUnique(df, "region"))
get_regions(df) == PySorted(ColUnique(df, "region"))
get_states_raises(df) == SortedRaises(ColUnique(df, "state_name"))
get_states(df) == PySorted(ColUnique(df, "state_name"))
\* A get_districts that forgets the restriction to the state.
get_districts_allrows(df, state) == Sorted(ColUnique(df, "district_name"))

get_districts(df, state) ==
    IF Truthy(state)
    THEN Sorted(ColUnique(SelectEq(df, "state_name", state), "district_name"))
    ELSE Sorted(ColUnique(df, "district_name"))

\* st.selectbox(options): the first option by default, None without options.
FirstOrNone(options) == IF Len(options) = 0 THEN None ELSE options[1]
OptionsOrNone(options) == IF Len(options) = 0 THEN {None} ELSE Elems(options)

(* ------------------------- Predictions page ---------------------------- *)
\* int(x) of a finite non-negative float.
IntOf(x) == x.n \div x.d

Denom(name, isZero) == [name |-> name, zero |-> isZero]

\* st.number_input and st.slider raise unless min_value <= value <= max_value.
WidgetOk(min_value, value, max_value) == min_value <= value /\ value <= max_value

\* st.number_input(min_value, max_value, value) accepts its default only
\* when min_value <= value <= max_value; int(nan) raises on an empty table.
NumberInputsOk(df) ==
    /\ Len(df) > 0
    /\ WidgetOk(1, IntOf(ColMean(df, "no_of_offices")), ColMax(df, "no_of_offices"))
    /\ WidgetOk(1, IntOf(ColMean(df, "no_of_accounts")), ColMax(df, "no_of_accounts"))

\* Similar records that must also match the chosen state.
similar_records_bystate(df, population_group, region, state, district) ==
    SelectSeq(df, LAMBDA r : /\ r.population_group = population_group
                             /\ r.region = region
                             /\ r.state_name = state)

\* Similar records matched on the population group alone.
similar_records_anyregion(df, population_group, region, state, district) ==
    SelectSeq(df, LAMBDA r : r.population_group = population_group)

\* similar_records: the state and the district chosen in the form are in
\* scope but are not part of the selection.
similar_records(df, population_group, region, state, district) ==
    SelectSeq(df, LAMBDA r : /\ r.population_group = population_group
                             /\ r.region = region)

\* The body of `if st.button("Predict Deposit Amount")`.
PredictButton(df, w) ==
    LET similar == similar_records(df, w.population_group, w.region,
                                   w.state, w.district)
        avg_deposits == ColMean(df, "deposit_amount")
    IN  IF Len(similar) > 0
        THEN LET dsum == ColSum(similar, "deposit_amount")
                 osum == ColSum(similar, "no_of_offices")
                 asum == ColSum(similar, "no_of_accounts")
                 avg_deposit_per_office == FDiv(Int2F(dsum), Int2F(osum))
                 avg_deposit_per_account == FDiv(Int2F(dsum), Int2F(asum))
                 predicted_deposit ==
                     FAdd(FMul(FMul(Int2F(w.no_of_offices),
                                    avg_deposit_per_office), Half),
                          FMul(FMul(Int2F(w.no_of_accounts),
                                    avg_deposit_per_account), Half))
             IN  [predicted_deposit |-> << predicted_deposit >>,
                  msgs |-> {Msg("Prediction Complete!")},
                  denoms |-> { Denom("similar_records.no_of_offices.sum", osum = 0),
                               Denom("similar_records.no_of_accounts.sum", asum = 0),
                               Denom("avg_deposits", avg_deposits.n = 0),
                               Denom("no_of_offices", w.no_of_offices = 0),
                               Denom("no_of_accounts", w.no_of_accounts = 0) }]
        ELSE [predicted_deposit |-> << >>,
              msgs |-> {Msg("No similar records found")},
              denoms |-> {}]

\* A scenario computed the way the button handler computes its estimate:
\* the office and the account ratio blended, an error without a match.
Scenario_button(df, s) ==
    LET b == PredictButton(df, [no_of_offices |-> s.s_offices,
                                no_of_accounts |-> s.s_accounts,
                                population_group |-> s.s_pop_group,
                                region |-> s.s_region,
                                state |-> None, district |-> None])
    IN  [s_prediction |-> b.predicted_deposit, msgs |-> b.msgs,
         denoms |-> b.denoms]

\* One pass of the Scenario Comparison loop: the estimate shown under
\* "Predicted Deposit" and the messages of the pass.
Scenario(df, s) ==
    LET similar == SelectSeq(df, LAMBDA r : /\ r.population_group = s.s_pop_group
                                            /\ r.region = s.s_region)
        avg_deposits == ColMean(df, "deposit_amount")
        osum == ColSum(similar, "no_of_offices")
    IN  IF Len(similar) > 0
        THEN [s_prediction |->
                  << FMul(Int2F(s.s_offices),
                          FDiv(Int2F(ColSum(similar, "deposit_amount")),
                               Int2F(osum))) >>,
              msgs |-> {},
              denoms |-> { Denom("similar.no_of_offices.sum", osum = 0),
                           Denom("s_offices", s.s_offices = 0) }]
        ELSE [s_prediction |-> << avg_deposits >>,
              msgs |-> {},
              denoms |-> { Denom("s_offices", s.s_offices = 0) }]

\* The widget values of a fresh session.
DefaultForm(df) ==
    [no_of_offices |-> IntOf(ColMean(df, "no_of_offices")),
     no_of_accounts |-> IntOf(ColMean(df, "no_of_accounts")),
     population_group |-> get_population_groups[1],
     region |-> FirstOrNone(get_regions(df)),
     state |-> FirstOrNone(get_states(df)),
     district |-> FirstOrNone(get_districts(df, FirstOrNone(get_states(df)))),
     button |-> FALSE]

DefaultScenario(df, idx) ==
    [s_offices |-> IntOf(ColMean(df, "no_of_offices")) * (idx + 1),
     s_accounts |-> IntOf(ColMean(df, "no_of_accounts")) * (idx + 1),
     s_pop_group |-> get_population_groups[1],
     s_region |-> FirstOrNone(get_regions(df))]
\* The Predictions script after the reference table is loaded: the number
\* inputs, the button handler when the button was clicked, then the
\* Scenario Comparison loop over the scenarios' widget values.
PredictionsScript(df, w, scen) ==
    IF ~NumberInputsOk(df)
    THEN [raised |-> TRUE, predicted_deposit |-> << >>, msgs |-> {},
          denoms |-> {}, scenarios |-> << >>]
    ELSE LET b == IF w.button THEN PredictButton(df, w)
                  ELSE [predicted_deposit |-> << >>, msgs |-> {}, denoms |-> {}]
             sc == [i \in 1..Len(scen) |-> Scenario(df, scen[i])]
         IN  [raised |-> FALSE,
              predicted_deposit |-> b.predicted_deposit,
              msgs |-> b.msgs,
              denoms |-> b.denoms \cup UNION { sc[i].denoms : i \in 1..Len(scen) },
              scenarios |-> sc]

(* ------------------------------ EDA page ------------------------------- *)
\* The EDA script after the table is loaded: sidebar filters, filter_data,
\* get_summary_stats.
EDAScript(df, w) ==
    LET f == filter_data(df,
                 IF w.population_filter # "All" THEN w.population_filter ELSE None,
                 IF w.region_filter # "All" THEN w.region_filter ELSE None,
                 IF w.state_filter # "All" THEN w.state_filter ELSE None)
    IN  [df |-> f.df, filtered_df |-> f.filtered_df,
         stats |-> get_summary_stats(f.filtered_df)]

(* --------------------- data_loader: cached loaders --------------------- *)
\* One cache entry per decorated function and argument tuple; each loader
\* reads one file.
TableKinds == {"cleaned", "featured", "model_comparison"}
ModelNames == {"extra_trees", "gradient_boosting", "decision_tree"}
Artifacts == TableKinds \cup ModelNames \cup {"project_summary", "insights_narrative"}

FileStates == {"ok", "missing", "malformed", "unreadable"}

\* A final_model_comparison.csv of n rows: the i-th model and its test_r2
\* (in 1/10000).
ModelTable(n) ==
    [i \in 1..n |-> [rid |-> i - 1, model_name |-> i, test_r2 |-> 10000 - 8 * i]]

\* The file on disk compares as many models as the top-N slider shows by
\* default.
ModelComparisonTable == ModelTable(DefaultTopN)

\* show_top_n = st.slider("Show top N models", 5, len(comparison_df), 15)
show_top_n(comparison_df) ==
    [raised |-> ~WidgetOk(MinTopN, DefaultTopN, Len(comparison_df)),
     value |-> DefaultTopN]

\* A Python value handed out by a loader: None, or the content of the
\* artifact; a table has its rows and, once assigned, a 'metric' column.
PyNone == [none |-> TRUE, artifact |-> "", rows |-> << >>, metric |-> << >>]

\* What reading an intact file yields.
OnDisk(a) ==
    [none |-> FALSE, artifact |-> a,
     rows |-> IF a \in {"cleaned", "featured"} THEN ExampleTable
              ELSE IF a = "model_comparison" THEN ModelComparisonTable
              ELSE << >>,
     metric |-> << >>]

ErrorMsg(a) == << "Error loading", a >>

\* A loader body without its try/except: the exception of a failed read
\* leaves the loader.
LoaderBody_notry(a, fs) ==
    IF fs = "ok"
    THEN [value |-> OnDisk(a), msgs |-> {}, raised |-> FALSE]
    ELSE [value |-> PyNone, msgs |-> {}, raised |-> TRUE]

\* The body shared by the six loaders: try: read the file, return its
\* content; except Exception: st.error(...), return None.
LoaderBody(a, fs) ==
    IF fs = "ok"
    THEN [value |-> OnDisk(a), msgs |-> {}, raised |-> FALSE]
    ELSE [value |-> PyNone, msgs |-> {ErrorMsg(a)}, raised |-> FALSE]

EmptyEntry == [filled |-> FALSE, value |-> PyNone, byref |-> FALSE, msgs |-> {}]

\* The result of a decorated call: the entry afterwards, the value
\* returned, whether the returned object was created by this call (fresh),
\* whether it is the object the cache itself holds (shared), the messages
\* rendered, whether the entry was there (hit).
CallResult(entry, value, fresh, shared, m, hit, exc) ==
    [entry |-> entry, value |-> value, fresh |-> fresh, shared |-> shared,
     msgs |-> m, hit |-> hit, raised |-> exc]

\* @st.cache_resource: the entry holds the returned object itself; a hit
\* hands the same object out again.  A body that raises stores nothing.
\* The elements rendered by the body are replayed on a hit.
cache_resource(entry, body) ==
    IF entry.filled
    THEN CallResult(entry, entry.value, FALSE, ~entry.value.none, entry.msgs,
                    TRUE, FALSE)
    ELSE IF body.raised
    THEN CallResult(entry, PyNone, FALSE, FALSE, body.msgs, FALSE, TRUE)
    ELSE CallResult([filled |-> TRUE, value |-> body.value,
                     byref |-> ~body.value.none, msgs |-> body.msgs],
                    body.value, ~body.value.none, ~body.value.none, body.msgs,
                    FALSE, FALSE)

\* A cache_data that keeps and hands out the returned object itself.
cache_data_byref(entry, body) == cache_resource(entry, body)

\* A cache_data that stores nothing when the body returns None.
cache_data_skipnone(entry, body) ==
    IF entry.filled
    THEN CallResult(entry, entry.value, ~entry.value.none, FALSE, entry.msgs,
                    TRUE, FALSE)
    ELSE IF body.raised
    THEN CallResult(entry, PyNone, FALSE, FALSE, body.msgs, FALSE, TRUE)
    ELSE IF body.value.none
    THEN CallResult(entry, PyNone, FALSE, FALSE, body.msgs, FALSE, FALSE)
    ELSE CallResult([filled |-> TRUE, value |-> body.value, byref |-> FALSE,
                     msgs |-> body.msgs],
                    body.value, TRUE, FALSE, body.msgs, FALSE, FALSE)

\* @st.cache_data: the entry holds the pickled return value; a miss hands
\* out the object the body made, a hit a new object unpickled from the
\* entry (None is the one None).  The elements rendered by the body are
\* replayed on a hit.
cache_data(entry, body) ==
    IF entry.filled
    THEN CallResult(entry, entry.value, ~entry.value.none, FALSE, entry.msgs,
                    TRUE, FALSE)
    ELSE IF body.raised
    THEN CallResult(entry, PyNone, FALSE, FALSE, body.msgs, FALSE, TRUE)
    ELSE CallResult([filled |-> TRUE, value |-> body.value, byref |-> FALSE,
                     msgs |-> body.msgs],
                    body.value, ~body.value.none, FALSE, body.msgs, FALSE, FALSE)

\* The decorated loader of artifact a called with cache entry `entry` and
\* its file in state fs.
Loader(a, entry, fs) ==
    IF a \in ModelNames
    THEN cache_resource(entry, LoaderBody(a, fs))
    ELSE cache_data(entry, LoaderBody(a, fs))

load_cleaned_data(entry, fs) == Loader("cleaned", entry, fs)
load_featured_data(entry, fs) == Loader("featured", entry, fs)
load_model_comparison(entry, fs) == Loader("model_comparison", entry, fs)
\* A load_best_model that ignores its argument and loads the default model.
load_best_model_anyname(model_name, entry, fs) == Loader("extra_trees", entry, fs)

load_best_model(model_name, entry, fs) == Loader(model_name, entry, fs)
load_project_summary(entry, fs) == Loader("project_summary", entry, fs)
load_insights_narrative(entry, fs) == Loader("insights_narrative", entry, fs)

LoaderOf(a, entry, fs) ==
    CASE a = "cleaned" -> load_cleaned_data(entry, fs)
      [] a = "featured" -> load_featured_data(entry, fs)
      [] a = "model_comparison" -> load_model_comparison(entry, fs)
      [] a \in ModelNames -> load_best_model(a, entry, fs)
      [] a = "project_summary" -> load_project_summary(entry, fs)
      [] a = "insights_narrative" -> load_insights_narrative(entry, fs)

\* A read of the file takes place when it can be opened.
Readable(fs) == fs \in {"ok", "malformed"}
Exists(fs) == fs # "missing"

\* The state a script threads through its loader calls: the caches, the
\* reads of each file, the times a loader body parsed each file, the calls
\* made, the messages rendered, and whether an exception is propagating.
CallStep(s, a, r, readable) ==
    [cache |-> [s.cache EXCEPT ![a] = r.entry],
     reads |-> IF ~r.hit /\ readable THEN [s.reads EXCEPT ![a] = @ + 1] ELSE s.reads,
     loads |-> IF ~r.hit /\ readable THEN [s.loads EXCEPT ![a] = @ + 1] ELSE s.loads,
     rets |-> Append(s.rets, [loader |-> a, hit |-> r.hit, value |-> r.value,
                              fresh |-> r.fresh, shared |-> r.shared,
                              raised |-> r.raised, msgs |-> r.msgs]),
     uses |-> s.uses,
     msgs |-> s.msgs \cup r.msgs,
     raised |-> r.raised]

Call(s, a, files) ==
    IF s.raised THEN s
    ELSE CallStep(s, a, LoaderOf(a, s.cache[a], files[a]), Readable(files[a]))

Ret(s) == s.rets[Len(s.rets)]

\* The operations that test a value for availability: `x is None`,
\* `x is not None`, and the truth test of `if x:`.
Checks == {"is None", "truth"}

\* The script applies op to the value its i-th loader call returned.  Any
\* operation but a check raises on None (subscripting, attribute access).
Use(s, i, op) ==
    IF s.raised THEN s
    ELSE [s EXCEPT !.uses = @ \cup {[call |-> i, artifact |-> s.rets[i].loader,
                                     op |-> op, none |-> s.rets[i].value.none]},
                   !.raised = op \notin Checks /\ s.rets[i].value.none]

\* `if x is not None: <op on x>`
Guarded(s, i, op) ==
    IF s.raised \/ s.rets[i].value.none THEN Use(s, i, "is None")
    ELSE Use(Use(s, i, "is None"), i, op)

\* get_regions, get_states, get_districts: df = load_cleaned_data();
\* `if df is not None: return sorted(df[...].unique().tolist())`.
Getter(s, files) ==
    IF s.raised THEN s
    ELSE Guarded(Call(s, "cleaned", files), Len(s.rets) + 1, "columns")

\* n getter calls in a row.
RECURSIVE CallN(_, _, _)
CallN(s, files, n) ==
    IF n = 0 THEN s ELSE CallN(Getter(s, files), files, n - 1)

(* ------------------------------- state --------------------------------- *)
VARIABLES
    phase,              \* "idle" between script runs, "ran" after one
    page,               \* the script or function that ran last
    df,                 \* the table the script holds (its rows)
    w,                  \* the widget values / arguments of the run
    scen,               \* the Scenario Comparison widget values of the run
    filtered_df,        \* << >> or << the table filter_data returned >>
    stats,              \* << >> or << the record get_summary_stats returned >>
    predicted_deposit,  \* << >> or << the estimate of the button handler >>
    scenarios,          \* the results of the Scenario Comparison loop
    msgs,               \* the messages the run rendered
    denoms,             \* the denominators the prediction code divided by
    raised,             \* the run ended in an uncaught exception
    stopped,            \* the run ended in st.stop()
    metric,             \* the 'metric' column assigned to the script's table
    rets,               \* the loader calls of the run, in order
    out,                \* << >> or << the value the function called returned >>
    uses,               \* what the run did with the values its loader calls
                        \* returned
    fstate,             \* the state of each artifact file
    cache,              \* the process-wide cache entries
    reads,              \* how often each file was read from disk
    loads,              \* how often a loader body read and parsed each file
    runs,               \* the script runs of the process so far
    assigned            \* history: the loaders whose table a script assigned
                        \* a column to

calcvars == << phase, page, df, w, scen, filtered_df, stats, predicted_deposit,
               scenarios, msgs, denoms, raised >>
procvars == << fstate, cache, reads, loads, runs, assigned >>
runvars == << stopped, metric, rets, out, uses >>

vars == << calcvars, runvars, procvars >>

NoArgs == [none |-> TRUE]

Cleared ==
    /\ page' = "none"
    /\ w' = NoArgs
    /\ scen' = << >>
    /\ filtered_df' = << >>
    /\ stats' = << >>
    /\ predicted_deposit' = << >>
    /\ scenarios' = << >>
    /\ msgs' = {}
    /\ denoms' = {}
    /\ raised' = FALSE
    /\ stopped' = FALSE
    /\ metric' = << >>
    /\ rets' = << >>
    /\ out' = << >>
    /\ uses' = {}

(* --------------------- CalcSpec: inputs and actions -------------------- *)
\* Criteria a caller may pass to filter_data: no criterion in its three
\* spellings, labels of the table, and labels that occur in no row.
PopulationCriteria == {None, "", "All", "Rural", "Urban", "Semi-urban"}
RegionCriteria == {None, "All", "East", "West"}
StateCriteria == {None, "", "Bihar", "Goa", "Kerala"}

EDAInputs(t) ==
    [population_filter : {"All"} \cup ColUnique(t, "population_group"),
     region_filter : {"All"} \cup ColUnique(t, "region"),
     state_filter : {"All"} \cup ColUnique(t, "state_name")]

\* Values the user can give the two number inputs: 1, the example's value
\* and the default, within the widget's range.
OfficeInputs(t) ==
    { x \in {1, 4, IntOf(ColMean(t, "no_of_offices"))} :
        1 <= x /\ x <= ColMax(t, "no_of_offices") }
AccountInputs(t) ==
    { x \in {1, 30, IntOf(ColMean(t, "no_of_accounts"))} :
        1 <= x /\ x <= ColMax(t, "no_of_accounts") }

\* The form with the button clicked, every choice of its widgets.
FormInputs(t) ==
    UNION { [no_of_offices : OfficeInputs(t),
             no_of_accounts : AccountInputs(t),
             population_group : Elems(get_population_groups),
             region : OptionsOrNone(get_regions(t)),
             state : {st},
             district : OptionsOrNone(get_districts(t, st)),
             button : {TRUE}] : st \in OptionsOrNone(get_states(t)) }

DefaultScenarios(t, n) == [i \in 1..n |-> DefaultScenario(t, i - 1)]

\* n scenarios, the k-th edited by the user, the others as created.
ScenarioInputs(t) ==
    UNION { UNION { { [DefaultScenarios(t, n) EXCEPT ![k] = e] :
                        e \in [s_offices : {1, IntOf(ColMean(t, "no_of_offices")) * k},
                               s_accounts : {1, IntOf(ColMean(t, "no_of_accounts")) * k},
                               s_pop_group : Elems(get_population_groups),
                               s_region : OptionsOrNone(get_regions(t))] }
                    : k \in 1..n }
            : n \in MinScenarios..MaxScenarios }

InitCalc ==
    /\ phase = "idle"
    /\ page = "none"
    /\ df \in Tables
    /\ w = NoArgs
    /\ scen = << >>
    /\ filtered_df = << >>
    /\ stats = << >>
    /\ predicted_deposit = << >>
    /\ scenarios = << >>
    /\ msgs = {}
    /\ denoms = {}
    /\ raised = FALSE
    /\ stopped = FALSE
    /\ metric = << >>
    /\ rets = << >>
    /\ out = << >>
    /\ uses = {}
    /\ fstate = [a \in Artifacts |-> "ok"]
    /\ cache = [a \in Artifacts |-> EmptyEntry]
    /\ reads = [a \in Artifacts |-> 0]
    /\ loads = [a \in Artifacts |-> 0]
    /\ runs = 0
    /\ assigned = {}

\* A call of filter_data(df, population_group, region, state).
CallFilterData ==
    /\ phase = "idle"
    /\ \E pg \in PopulationCriteria, rg \in RegionCriteria, st \in StateCriteria :
         LET f == filter_data(df, pg, rg, st)
         IN  /\ w' = [population_group |-> pg, region |-> rg, state |-> st]
             /\ df' = f.df
             /\ filtered_df' = << f.filtered_df >>
    /\ phase' = "ran"
    /\ page' = "filter_data"
    /\ UNCHANGED << scen, stats, predicted_deposit, scenarios, msgs, denoms, raised >>
    /\ UNCHANGED << runvars, procvars >>

\* A call of get_summary_stats(df).
CallGetSummaryStats ==
    /\ phase = "idle"
    /\ stats' = << get_summary_stats(df) >>
    /\ phase' = "ran"
    /\ page' = "get_summary_stats"
    /\ UNCHANGED << df, w, scen, filtered_df, predicted_deposit, scenarios, msgs,
                    denoms, raised >>
    /\ UNCHANGED << runvars, procvars >>

\* A run of the EDA script on the loaded table.
RunEDA ==
    /\ phase = "idle"
    /\ \E x \in EDAInputs(df) :
         LET r == EDAScript(df, x)
         IN  /\ w' = x
             /\ df' = r.df
             /\ filtered_df' = << r.filtered_df >>
             /\ stats' = << r.stats >>
    /\ phase' = "ran"
    /\ page' = "EDA"
    /\ UNCHANGED << scen, predicted_deposit, scenarios, msgs, denoms, raised >>
    /\ UNCHANGED << runvars, procvars >>

PredictionsRun(x, sc) ==
    LET r == PredictionsScript(df, x, sc)
    IN  /\ w' = x
        /\ scen' = sc
        /\ predicted_deposit' = r.predicted_deposit
        /\ scenarios' = r.scenarios
        /\ msgs' = r.msgs
        /\ denoms' = r.denoms
        /\ raised' = r.raised
        /\ phase' = "ran"
        /\ page' = "Predictions"
        /\ UNCHANGED << df, filtered_df, stats >>
        /\ UNCHANGED << runvars, procvars >>

\* A run of the Predictions script on the loaded table: the form with the
\* button clicked, or the scenario widgets edited.
RunPredictions ==
    /\ phase = "idle"
    /\ IF ~NumberInputsOk(df)
       THEN PredictionsRun(NoArgs, << >>)
       ELSE \/ \E x \in FormInputs(df) :
                 PredictionsRun(x, DefaultScenarios(df, MinScenarios))
            \/ \E sc \in ScenarioInputs(df) :
                 PredictionsRun(DefaultForm(df), sc)

\* The table with one cell of a label column empty in the file.
WithMissing(t, col) ==
    {t} \cup { [t EXCEPT ![i][col] = NaNLabel] : i \in 1..Len(t) }

\* What a getter call leaves: its return value, or the exception.
GetterCall(name, args, raises, value) ==
    /\ phase = "idle"
    /\ w' = args
    /\ raised' = raises
    /\ out' = IF raises THEN << >> ELSE << value >>
    /\ phase' = "ran"
    /\ page' = name
    /\ UNCHANGED << df, scen, filtered_df, stats, predicted_deposit, scenarios,
                    msgs, denoms >>
    /\ UNCHANGED << stopped, metric, rets, uses, procvars >>

\* A call of get_regions() while load_cleaned_data() returns the table, or
\* the table with a region cell missing.
CallGetRegions ==
    \E t \in WithMissing(df, "region") :
        GetterCall("get_regions", [table |-> t], get_regions_raises(t),
                   get_regions(t))

\* The same for get_states().
CallGetStates ==
    \E t \in WithMissing(df, "state_name") :
        GetterCall("get_states", [table |-> t], get_states_raises(t),
                   get_states(t))

\* The states a caller may pass to get_districts: none in its two falsy
\* spellings, states of the table, and a state that occurs in no row.
DistrictStates == {None, "", "Bihar", "Goa", "Odisha", "Kerala"}

\* A call of get_districts(state).
CallGetDistricts ==
    \E state \in DistrictStates :
        GetterCall("get_districts", [table |-> df, state |-> state], FALSE,
                   get_districts(df, state))

\* The table, or the table with the deposit of one row equal to that of
\* another.
WithTie(t) ==
    {t} \cup { [t EXCEPT ![i].deposit_amount = t[j].deposit_amount] :
                 i \in 1..Len(t), j \in 1..Len(t) }

\* The N of a selection: 1, the 2 of the documented example, and the 10 of
\* the Geographic page.
TopNs == {1, 2, 10}

\* Top-N / Bottom-N selection: sort_values(by, ascending).head(N).
CallTopN ==
    /\ phase = "idle"
    /\ \E t \in WithTie(df), ascending \in BOOLEAN, n \in TopNs :
         \E sorted_df \in sort_values(t, "deposit_amount", ascending) :
            /\ w' = [table |-> t, by |-> "deposit_amount",
                     ascending |-> ascending, n |-> n]
            /\ out' = << head(sorted_df, n) >>
    /\ phase' = "ran"
    /\ page' = "top_n"
    /\ UNCHANGED << df, scen, filtered_df, stats, predicted_deposit, scenarios,
                    msgs, denoms, raised >>
    /\ UNCHANGED << stopped, metric, rets, uses, procvars >>

\* The columns the pages group by: population_group (EDA) and region
\* (regional analysis).
GroupColumns == {"population_group", "region"}

\* A group-by aggregation of the table.
CallGroupBy ==
    /\ phase = "idle"
    /\ \E by \in GroupColumns :
         LET r == groupby_agg(df, by)
         IN  /\ w' = [table |-> df, by |-> by]
             /\ df' = r.df
             /\ out' = << r.pop_stats >>
    /\ phase' = "ran"
    /\ page' = "groupby"
    /\ UNCHANGED << scen, filtered_df, stats, predicted_deposit, scenarios,
                    msgs, denoms, raised >>
    /\ UNCHANGED << stopped, metric, rets, uses, procvars >>

\* The correlation matrix of the table's numeric columns.
CallCorr ==
    /\ phase = "idle"
    /\ w' = [table |-> df, columns |-> numerical_features]
    /\ out' = << corr(df, numerical_features) >>
    /\ phase' = "ran"
    /\ page' = "corr"
    /\ UNCHANGED << df, scen, filtered_df, stats, predicted_deposit, scenarios,
                    msgs, denoms, raised >>
    /\ UNCHANGED << stopped, metric, rets, uses, procvars >>

\* The comparison tables the Models page is given: fewer rows than the
\* slider's minimum, one fewer than its default, as many, and more.
ModelCounts == {MinTopN - 2, DefaultTopN - 1, DefaultTopN, DefaultTopN + 1}

\* The "Detailed Metrics" section of the Models page on a comparison table
\* of n rows: the slider, then sort_values(...).head(show_top_n).
RunModelsTable ==
    /\ phase = "idle"
    /\ \E n \in ModelCounts :
         LET sl == show_top_n(ModelTable(n))
         IN  /\ w' = [rows |-> n]
             /\ raised' = sl.raised
             /\ out' = IF sl.raised THEN << >>
                       ELSE << Len(head(ModelTable(n), sl.value)) >>
    /\ phase' = "ran"
    /\ page' = "Models"
    /\ UNCHANGED << df, scen, filtered_df, stats, predicted_deposit, scenarios,
                    msgs, denoms >>
    /\ UNCHANGED << stopped, metric, rets, uses, procvars >>

\* The next interaction: the outputs of the last run are discarded.
Interact ==
    /\ phase = "ran"
    /\ phase' = "idle"
    /\ Cleared
    /\ UNCHANGED << df, procvars >>

NextCalc ==
    \/ CallFilterData
    \/ CallGetSummaryStats
    \/ RunEDA
    \/ RunPredictions
    \/ CallGetRegions
    \/ CallGetStates
    \/ CallGetDistricts
    \/ CallTopN
    \/ CallGroupBy
    \/ CallCorr
    \/ RunModelsTable
    \/ Interact

CalcSpec == InitCalc /\ [][NextCalc]_vars
(* ------------------------ SetupSpec: check_setup ----------------------- *)
\* check_python_version: version = << major, minor >>.
check_python_version(version) == version[1] >= 3 /\ version[2] >= 8

\* The packages check_dependencies imports.
required == << "streamlit", "pandas", "numpy", "plotly", "sklearn" >>

\* check_dependencies: every package is imported; an ImportError puts it in
\* `missing`, any other exception of an import leaves the function.
check_dependencies(imports) ==
    LET missing == { p \in Elems(required) : imports[p] = "ImportError" }
    IN  [raised |-> \E p \in Elems(required) : imports[p] = "Exception",
         ok |-> missing = {}]

\* (path, required) of check_file_structure's list.
required_files ==
    << << "data/processed/cleaned_data.csv", TRUE >>,
       << "data/processed/featured_data.csv", TRUE >>,
       << "models/saved_models/extra_trees.pkl", TRUE >>,
       << "models/saved_models/gradient_boosting.pkl", TRUE >>,
       << "models/saved_models/decision_tree.pkl", TRUE >>,
       << "reports/model_results/model_comparison.csv", TRUE >>,
       << "reports/model_results/project_summary.json", FALSE >>,
       << "reports/model_results/data_storytelling_insights.txt", FALSE >> >>

\* A check_file_structure for which every listed file is required.
check_file_structure_allrequired(exists) ==
    \A i \in 1..Len(required_files) : required_files[i][1] \in exists

\* check_file_structure: all_ok is cleared by a file that does not exist
\* and is required.
check_file_structure(exists) ==
    \A i \in 1..Len(required_files) :
        ~(required_files[i][1] \notin exists /\ required_files[i][2])

app_files ==
    << "app.py", "utils/data_loader.py", "utils/visualizations.py",
       "pages/1_EDA.py", "pages/2_Models.py", "pages/3_Predictions.py",
       "pages/4_Insights.py", "pages/5_Geographic.py",
       "pages/6_Interpretability.py", "pages/7_Clustering.py",
       "pages/8_Downloads.py" >>

\* check_streamlit_app: every app file exists (relative to the working
\* directory).
check_streamlit_app(exists) ==
    \A i \in 1..Len(app_files) : app_files[i] \in exists

print_summary(python_ok, deps_ok, files_ok, app_ok) ==
    python_ok /\ deps_ok /\ files_ok /\ app_ok

\* main(): the exit status of the process; an uncaught exception ends the
\* interpreter with status 1.
main(env) ==
    LET python_ok == check_python_version(env.version)
        deps == IF python_ok THEN check_dependencies(env.imports)
                ELSE [raised |-> FALSE, ok |-> FALSE]
        files_ok == check_file_structure(env.files)
        app_ok == check_streamlit_app(env.app)
        ready == print_summary(python_ok, deps.ok, files_ok, app_ok)
    IN  IF deps.raised THEN [status |-> 1, raised |-> TRUE]
        ELSE [status |-> IF ready THEN 0 ELSE 1, raised |-> FALSE]

\* The environments check_setup is run in: an interpreter that can run the
\* script, the packages importable but for at most one, the app files
\* there but for at most one.
PythonVersions == { << 3, 6 >>, << 3, 7 >>, << 3, 8 >>, << 3, 12 >> }
ImportStates ==
    { [p \in Elems(required) |-> "ok"] }
    \cup { [p \in Elems(required) |-> IF p = bad THEN o ELSE "ok"] :
             bad \in Elems(required), o \in {"ImportError", "Exception"} }
DataFiles == { required_files[i][1] : i \in 1..Len(required_files) }
\* The file each loader of data_loader reads, relative to the same project
\* root check_setup resolves its list against.
LoaderPath ==
    [cleaned |-> "data/processed/cleaned_data.csv",
     featured |-> "data/processed/featured_data.csv",
     model_comparison |-> "reports/model_results/final_model_comparison.csv",
     extra_trees |-> "models/saved_models/extra_trees.pkl",
     gradient_boosting |-> "models/saved_models/gradient_boosting.pkl",
     decision_tree |-> "models/saved_models/decision_tree.pkl",
     project_summary |-> "reports/model_results/project_summary.json",
     insights_narrative |-> "reports/model_results/data_storytelling_insights.txt"]

\* The project tree holds the files of check_setup's list and of the
\* loaders, but for at most two of them, with or without the comparison
\* file the loader reads.
ProjectFiles == DataFiles \cup { LoaderPath[a] : a \in Artifacts }
FileSets ==
    { DataFiles \ {a, b} : a, b \in DataFiles \cup {"none"} }
    \cup { ProjectFiles \ {a, b} : a, b \in DataFiles \cup {"none"} }
AppFileSets ==
    { Elems(app_files) \ {a} : a \in {"none", "app.py", "pages/8_Downloads.py"} }
Environments ==
    [version : PythonVersions, imports : ImportStates, files : FileSets,
     app : AppFileSets]

InitSetup == InitCalc /\ df = << >>

\* A run of check_setup.py.
RunCheckSetup ==
    /\ phase = "idle"
    /\ \E env \in Environments :
         LET r == main(env)
         IN  /\ w' = env
             /\ out' = << r.status >>
             /\ raised' = r.raised
    /\ phase' = "ran"
    /\ page' = "check_setup"
    /\ UNCHANGED << df, scen, filtered_df, stats, predicted_deposit, scenarios,
                    msgs, denoms >>
    /\ UNCHANGED << stopped, metric, rets, uses, procvars >>

NextSetup ==
    \/ RunCheckSetup
    \/ Interact

SetupSpec == InitSetup /\ [][NextSetup]_vars

(* ------------------- Spec: the process and its pages ------------------- *)
\* The artifact files are static: all intact, or one of them missing,
\* malformed or unreadable for the whole process lifetime.
Init ==
    /\ phase = "idle"
    /\ page = "none"
    /\ df = << >>
    /\ w = NoArgs
    /\ scen = << >>
    /\ filtered_df = << >>
    /\ stats = << >>
    /\ predicted_deposit = << >>
    /\ scenarios = << >>
    /\ msgs = {}
    /\ denoms = {}
    /\ raised = FALSE
    /\ stopped = FALSE
    /\ metric = << >>
    /\ rets = << >>
    /\ out = << >>
    /\ uses = {}
    /\ \/ fstate = [a \in Artifacts |-> "ok"]
       \/ \E bad \in Artifacts, fs \in FileStates \ {"ok"} :
            fstate = [a \in Artifacts |-> IF a = bad THEN fs ELSE "ok"]
    /\ cache = [a \in Artifacts |-> EmptyEntry]
    /\ reads = [a \in Artifacts |-> 0]
    /\ loads = [a \in Artifacts |-> 0]
    /\ runs = 0
    /\ assigned = {}

\* The start of a script run.
S0 == [cache |-> cache, reads |-> reads, loads |-> loads, rets |-> << >>,
       uses |-> {}, msgs |-> {}, raised |-> FALSE]

\* The end of a script run: what the run leaves in the process and what it
\* rendered.
Finish(s, name, extra, stop, exc) ==
    /\ cache' = s.cache
    /\ reads' = s.reads
    /\ loads' = s.loads
    /\ rets' = s.rets
    /\ uses' = s.uses
    /\ out' = << >>
    /\ msgs' = s.msgs \cup extra
    /\ stopped' = stop
    /\ raised' = exc
    /\ phase' = "ran"
    /\ page' = name
    /\ runs < MaxRuns
    /\ runs' = runs + 1
    /\ assigned' = IF name = "Geographic" /\ ~stop
                   THEN assigned \cup {"cleaned"} ELSE assigned
    /\ UNCHANGED fstate

NoCalc ==
    /\ df' = << >>
    /\ w' = NoArgs
    /\ scen' = << >>
    /\ filtered_df' = << >>
    /\ stats' = << >>
    /\ predicted_deposit' = << >>
    /\ scenarios' = << >>
    /\ denoms' = {}

\* The guard without its st.stop(): the script runs on with df = None and
\* the first use of the table raises.
LoadFailed_nostop(s, name) ==
    /\ Finish(Use(s, 1, "columns"), name, {Msg("Unable to load data")}, FALSE, TRUE)
    /\ NoCalc
    /\ metric' = << >>

\* `if df is None: st.error(...); st.stop()`, or the exception of a loader.
LoadFailed(s, name) ==
    /\ Finish(s, name, IF s.raised THEN {} ELSE {Msg("Unable to load data")},
              ~s.raised, s.raised)
    /\ NoCalc
    /\ metric' = << >>

AllFilter == [population_filter |-> "All", region_filter |-> "All",
              state_filter |-> "All"]

\* pages/1_EDA.py, with the sidebar filters of a fresh session.
PageEDA ==
    /\ phase = "idle"
    /\ LET s1 == Use(Call(S0, "cleaned", fstate), 1, "is None")
           d == Ret(s1).value
       IN  IF s1.raised \/ d.none
           THEN LoadFailed(s1, "EDA")
           ELSE LET r == EDAScript(d.rows, AllFilter)
                IN  /\ Finish(Use(s1, 1, "columns"), "EDA", {}, FALSE, FALSE)
                    /\ df' = r.df
                    /\ w' = AllFilter
                    /\ filtered_df' = << r.filtered_df >>
                    /\ stats' = << r.stats >>
                    /\ UNCHANGED << scen, predicted_deposit, scenarios, denoms,
                                    metric >>

\* A prediction section that runs the model on the featured table.
PredictionsAnalysis_predict(s) ==
    IF s.raised THEN s
    ELSE LET c == Use(s, 2, "is None")
         IN  IF s.rets[2].value.none THEN c
             ELSE IF s.rets[3].value.none THEN Use(c, 3, "is None")
             ELSE Use(Use(Use(c, 3, "is None"), 3, "columns"), 2, "predict")

\* `if best_model is not None and featured_df is not None:` and its body,
\* which renders a header and a note and touches neither value.
PredictionsAnalysis(s) ==
    IF s.raised THEN s
    ELSE IF s.rets[2].value.none THEN Use(s, 2, "is None")
    ELSE Use(Use(s, 2, "is None"), 3, "is None")

\* pages/2_Models.py: the comparison table, the top-N slider, then, inside
\* try/except, the best model and the featured table.
PageModels ==
    /\ phase = "idle"
    /\ LET s1 == Use(Call(S0, "model_comparison", fstate), 1, "is None")
           d == Ret(s1).value
       IN  IF s1.raised \/ d.none
           THEN LoadFailed(s1, "Models")
           ELSE IF show_top_n(d.rows).raised
           THEN /\ Finish(Use(s1, 1, "columns"), "Models", {}, FALSE, TRUE)
                /\ NoCalc
                /\ metric' = << >>
           ELSE LET s2 == Call(Use(s1, 1, "columns"), "extra_trees", fstate)
                    s3 == PredictionsAnalysis(Call(s2, "featured", fstate))
                    best_model == Ret(s2).value
                    featured_df == Ret(s3).value
                    shown == (IF s3.raised
                              THEN {Msg("Model predictions not available")}
                              ELSE IF ~best_model.none /\ ~featured_df.none
                              THEN {Msg("Model Predictions Analysis")} ELSE {})
                             \cup {Msg("Model Comparison Summary")}
                IN  /\ Finish([s3 EXCEPT !.raised = FALSE], "Models", shown,
                              FALSE, FALSE)
                    /\ NoCalc
                    /\ metric' = << >>

\* The form of a page run: as created, or with the button clicked for one
\* of the population groups.
PageForms(t) ==
    {DefaultForm(t)}
    \cup { [DefaultForm(t) EXCEPT !.button = TRUE, !.population_group = pg] :
              pg \in Elems(get_population_groups) }

\* pages/3_Predictions.py: the reference table, then get_regions,
\* get_states and get_districts for the form and get_regions once per
\* scenario, each a loader call of its own; the button handler and the
\* scenario loop call no loader.
PagePredictions ==
    /\ phase = "idle"
    /\ LET s1 == Use(Call(S0, "cleaned", fstate), 1, "is None")
           d == Ret(s1).value
       IN  IF s1.raised \/ d.none
           THEN LoadFailed(s1, "Predictions")
           ELSE IF ~NumberInputsOk(d.rows)
           THEN /\ Finish(Use(s1, 1, "columns"), "Predictions", {}, FALSE, TRUE)
                /\ NoCalc
                /\ metric' = << >>
           ELSE \E x \in PageForms(d.rows) :
                LET s2 == CallN(Use(s1, 1, "columns"), fstate, 3 + MinScenarios)
                    sc == DefaultScenarios(d.rows, MinScenarios)
                    r == PredictionsScript(d.rows, x, sc)
                IN  /\ Finish(s2, "Predictions", r.msgs, FALSE,
                              s2.raised \/ r.raised)
                    /\ df' = d.rows
                    /\ w' = x
                    /\ scen' = sc
                    /\ predicted_deposit' = r.predicted_deposit
                    /\ scenarios' = r.scenarios
                    /\ denoms' = r.denoms
                    /\ UNCHANGED << filtered_df, stats, metric >>

\* A "Regional Disparities" tab that groups the table without testing it.
RegionalDisparities_unguarded(s) == Use(s, 2, "columns")

\* with tab3: `if df is not None:` df.groupby('region').agg(...)
RegionalDisparities(s) == Guarded(s, 2, "columns")

\* `if narrative: st.text(narrative)`, a warning otherwise.
FullNarrative(s) ==
    IF s.raised \/ s.rets[1].value.none THEN Use(s, 1, "truth")
    ELSE Use(Use(s, 1, "truth"), 1, "display")

\* pages/4_Insights.py: the narrative and the table are loaded; the script
\* does not stop when either is unavailable: the summary is rendered, the
\* regional statistics only `if df is not None`, the narrative `if
\* narrative`, a warning otherwise.
PageInsights ==
    /\ phase = "idle"
    /\ LET s1 == Call(S0, "insights_narrative", fstate)
           s2 == FullNarrative(RegionalDisparities(Call(s1, "cleaned", fstate)))
           narrative == Ret(s1).value
           d == Ret(s2).value
           shown == IF s2.raised THEN {}
                    ELSE {Msg("Executive Summary")}
                         \cup (IF ~d.none THEN {Msg("Regional Disparities")} ELSE {})
                         \cup (IF ~narrative.none THEN {Msg("Narrative")}
                               ELSE {Msg("Narrative file not found")})
       IN  /\ Finish(s2, "Insights", shown, FALSE, s2.raised)
           /\ NoCalc
           /\ metric' = << >>

EfficiencyMetrics == {"Accounts per Office", "Deposit per Office", "Deposit per Account"}

\* Series.replace(0, 1)
Replace01(x) == IF x = 0 THEN 1 ELSE x

\* The column assigned to df['metric'] for the chosen efficiency metric.
MetricColumn(rows, m) ==
    [i \in 1..Len(rows) |->
        CASE m = "Accounts per Office" ->
               FDiv(Int2F(rows[i].no_of_accounts), Int2F(Replace01(rows[i].no_of_offices)))
          [] m = "Deposit per Office" ->
               FDiv(Int2F(rows[i].deposit_amount), Int2F(Replace01(rows[i].no_of_offices)))
          [] OTHER ->
               FDiv(Int2F(rows[i].deposit_amount), Int2F(Replace01(rows[i].no_of_accounts)))]

\* pages/5_Geographic.py: the table, get_regions for the region selector,
\* then df['metric'] = ... on the table the script loaded.  The assignment
\* changes the cache entry exactly when the script's table is the object
\* the cache holds.
PageGeographic ==
    /\ phase = "idle"
    /\ LET s1 == Use(Call(S0, "cleaned", fstate), 1, "is None")
           r1 == Ret(s1)
       IN  IF s1.raised \/ r1.value.none
           THEN LoadFailed(s1, "Geographic")
           ELSE \E m \in EfficiencyMetrics :
                  LET s2 == Getter(Use(s1, 1, "columns"), fstate)
                      col == MetricColumn(r1.value.rows, m)
                      s3 == IF r1.shared
                            THEN [s2 EXCEPT !.cache["cleaned"].value.metric = col]
                            ELSE s2
                  IN  /\ Finish(s3, "Geographic", {}, FALSE, s2.raised)
                      /\ NoCalc
                      /\ metric' = col

\* pages/6_Interpretability.py and pages/7_Clustering.py: the featured
\* table, or stop.
PageFeatured(name) ==
    /\ phase = "idle"
    /\ LET s1 == Use(Call(S0, "featured", fstate), 1, "is None")
       IN  IF s1.raised \/ Ret(s1).value.none
           THEN LoadFailed(s1, name)
           ELSE /\ Finish(Use(s1, 1, "columns"), name, {}, FALSE, FALSE)
                /\ NoCalc
                /\ metric' = << >>

PageInterpretability == PageFeatured("Interpretability")
PageClustering == PageFeatured("Clustering")

\* A read of file a by the Downloads page, n times, each inside try/except.
ReadGuarded(s, a, n) ==
    IF s.raised \/ ~Exists(fstate[a]) THEN s
    ELSE [s EXCEPT !.reads[a] = IF Readable(fstate[a]) THEN @ + n ELSE @,
                   !.msgs = IF fstate[a] = "ok" THEN @ ELSE @ \cup {<< "Error", a >>}]

\* `with open(path, 'rb')` outside any try: an unreadable file raises.
ReadOpen(s, a) ==
    IF s.raised \/ ~Exists(fstate[a]) THEN s
    ELSE IF Readable(fstate[a]) THEN [s EXCEPT !.reads[a] = @ + 1]
    ELSE [s EXCEPT !.raised = TRUE]

\* pages/8_Downloads.py: every file is read from disk by the page itself,
\* the two datasets twice (download and preview), the models once, the
\* project summary once, the narrative twice (preview and download).
DownloadsScript(s) ==
    LET s1 == ReadGuarded(s, "cleaned", 2)
        s2 == ReadGuarded(s1, "featured", 2)
        s3 == ReadOpen(s2, "extra_trees")
        s4 == ReadOpen(s3, "gradient_boosting")
        s5 == ReadOpen(s4, "decision_tree")
        s6 == ReadOpen(s5, "project_summary")
        s7 == ReadGuarded(s6, "insights_narrative", 1)
    IN  ReadOpen([s7 EXCEPT !.msgs = s6.msgs], "insights_narrative")

PageDownloads ==
    /\ phase = "idle"
    /\ LET s1 == DownloadsScript(S0)
       IN  /\ \A a \in Artifacts : s1.reads[a] <= MaxReads
           /\ Finish(s1, "Downloads", {}, FALSE, s1.raised)
           /\ NoCalc
           /\ metric' = << >>

\* A call of a loader by any other caller.
CallLoader ==
    /\ phase = "idle"
    /\ \E a \in Artifacts :
         LET s1 == Call(S0, a, fstate)
         IN  /\ Finish(s1, "loader", {}, FALSE, s1.raised)
             /\ NoCalc
             /\ metric' = << >>

\* The next interaction: the script's variables and output are discarded,
\* the process state stays.
Rerun ==
    /\ phase = "ran"
    /\ phase' = "idle"
    /\ Cleared
    /\ df' = << >>
    /\ UNCHANGED procvars

Next ==
    \/ PageEDA
    \/ PageModels
    \/ PagePredictions
    \/ PageInsights
    \/ PageGeographic
    \/ PageInterpretability
    \/ PageClustering
    \/ PageDownloads
    \/ CallLoader
    \/ Rerun

Spec == Init /\ [][Next]_vars

(* ------------- RetrySpec: the process while files are repaired --------- *)
\* Between two script runs the file of an artifact that could not be loaded
\* is put in place intact; the process and its caches go on.
FileRestored ==
    /\ phase = "idle"
    /\ \E a \in Artifacts :
         /\ fstate[a] # "ok"
         /\ fstate' = [fstate EXCEPT ![a] = "ok"]
    /\ UNCHANGED << calcvars, runvars, cache, reads, loads, runs, assigned >>

NextRetry ==
    \/ Next
    \/ FileRestored

RetrySpec == Init /\ [][NextRetry]_vars

(* ======================= claims checked in CalcSpec ==================== *)
\* The sum of a column over a set of row positions.
RECURSIVE SumAt(_, _, _)
SumAt(t, S, col) ==
    IF S = {} THEN 0
    ELSE LET i == CHOOSE x \in S : TRUE IN t[i][col] + SumAt(t, S \ {i}, col)

Active(c) == c \notin {None, "", "All"}

\* The criteria of the last filter_data call, direct or from the EDA page.
Criteria ==
    IF page = "EDA"
    THEN [population_group |-> w.population_filter, region |-> w.region_filter,
          state |-> w.state_filter]
    ELSE w

MatchesCriteria(r, c) ==
    /\ Active(c.population_group) => r.population_group = c.population_group
    /\ Active(c.region) => r.region = c.region
    /\ Active(c.state) => r.state_name = c.state

\* C1: filter_data returns exactly the rows of the table that match every
\* active criterion, each once, in the table's order (index labels strictly
\* increasing); None, "" and "All" leave their dimension unfiltered, so the
\* result is a subset of the table's rows.
C1_FilterExact ==
    (page \in {"filter_data", "EDA"}) =>
        LET res == filtered_df[1]
        IN  /\ \A i \in 1..Len(res) : \E j \in 1..Len(df) : df[j] = res[i]
            /\ \A i, k \in 1..Len(res) : i < k => res[i].rid < res[k].rid
            /\ { res[i] : i \in 1..Len(res) }
                 = { df[j] : j \in { x \in 1..Len(df) : MatchesCriteria(df[x], Criteria) } }
            /\ Len(res) <= Len(df)

C1_Witness ==
    /\ page = "filter_data"
    /\ df = ExampleTable
    /\ w = [population_group |-> "All", region |-> "East", state |-> ""]
    /\ filtered_df = << SubSeq(ExampleTable, 1, 2) >>

\* C2: a call of filter_data leaves the table passed in as it was: same
\* rows, same columns, same order.
C2_InputUnchanged ==
    [][(phase' = "ran" /\ page' \in {"filter_data", "EDA"}) => df' = df]_vars

C2_Witness ==
    /\ page = "filter_data"
    /\ Len(filtered_df[1]) < Len(df)
    /\ df = ExampleTable

\* The table the last get_summary_stats call was given.
StatsTable == IF page = "EDA" THEN filtered_df[1] ELSE df

\* C3: get_summary_stats reports the number of rows, the column sums, the
\* mean deposit (the sum divided by the number of rows) and the numbers of
\* distinct states and districts; on the example table filtered to Rural it
\* reports 2 records, deposits 3000, offices 5, accounts 65.
C3_SummaryStats ==
    (page \in {"get_summary_stats", "EDA"}) =>
        LET t == StatsTable
            all == 1..Len(t)
            s == stats[1]
        IN  /\ s.total_records = Cardinality(all)
            /\ s.total_deposits = SumAt(t, all, "deposit_amount")
            /\ s.total_offices = SumAt(t, all, "no_of_offices")
            /\ s.total_accounts = SumAt(t, all, "no_of_accounts")
            /\ s.avg_deposits = FDiv(Int2F(SumAt(t, all, "deposit_amount")),
                                     Int2F(Cardinality(all)))
            /\ s.unique_states = Cardinality({ t[x].state_name : x \in all })
            /\ s.unique_districts = Cardinality({ t[x].district_name : x \in all })
            /\ (page = "EDA" /\ df = ExampleTable
                  /\ w = [population_filter |-> "Rural", region_filter |-> "All",
                          state_filter |-> "All"])
               => /\ s.total_records = 2
                  /\ s.total_deposits = 3000
                  /\ s.total_offices = 5
                  /\ s.total_accounts = 65

C3_Witness ==
    /\ page = "EDA"
    /\ df = ExampleTable
    /\ w = [population_filter |-> "Rural", region_filter |-> "All",
            state_filter |-> "All"]
    /\ stats[1].total_deposits = 3000
    /\ stats[1].avg_deposits = Int2F(1500)

\* C4: on a table without rows get_summary_stats raises nothing and returns
\* zero for every count and sum; avg_deposits is nan, the not-applicable
\* value, and no division error propagates.
C4_EmptyStats ==
    (page \in {"get_summary_stats", "EDA"} /\ Len(StatsTable) = 0) =>
        /\ ~raised
        /\ stats[1].total_records = 0
        /\ stats[1].total_deposits = 0
        /\ stats[1].total_offices = 0
        /\ stats[1].total_accounts = 0
        /\ stats[1].unique_states = 0
        /\ stats[1].unique_districts = 0
        /\ stats[1].avg_deposits = NaN

C4_Witness ==
    /\ page = "EDA"
    /\ Len(df) = MaxRows
    /\ filtered_df = << << >> >>
    /\ stats[1].total_records = 0

\* The positions of the rows that match a population group and a region.
Matching(t, pg, rg) ==
    { i \in 1..Len(t) : t[i].population_group = pg /\ t[i].region = rg }

\* 0.5 * offices * (D / O) + 0.5 * accounts * (D / A) as one float.
Blend(offices, accounts, D, O, A) ==
    IF O > 0 /\ A > 0
    THEN Frac(offices * D * A + accounts * D * O, 2 * O * A)
    ELSE IF D = 0 THEN NaN ELSE Inf

\* C5: with the button clicked and at least one record matching the chosen
\* population group and region, the estimate is
\* 0.5 * offices * (sum deposits / sum offices)
\* + 0.5 * accounts * (sum deposits / sum accounts) over the matching
\* records, whatever state and district are chosen; sums 3000, 5, 65 with
\* offices 4 and accounts 30 give 1200 + 45000/65.
C5_Estimate ==
    (page = "Predictions" /\ ~raised /\ w.button
       /\ Matching(df, w.population_group, w.region) # {}) =>
        LET S == Matching(df, w.population_group, w.region)
            D == SumAt(df, S, "deposit_amount")
            O == SumAt(df, S, "no_of_offices")
            A == SumAt(df, S, "no_of_accounts")
        IN  /\ predicted_deposit
                 = << Blend(w.no_of_offices, w.no_of_accounts, D, O, A) >>
            /\ (D = 3000 /\ O = 5 /\ A = 65 /\ w.no_of_offices = 4
                  /\ w.no_of_accounts = 30)
               => predicted_deposit = << Frac(1200 * 65 + 45000, 65) >>

C5_Witness ==
    /\ page = "Predictions"
    /\ df = ExampleTable
    /\ w.button
    /\ w.population_group = "Rural" /\ w.region = "East"
    /\ w.state = "Goa" /\ w.district = "Panaji"
    /\ w.no_of_offices = 4 /\ w.no_of_accounts = 30
    /\ predicted_deposit = << Frac(123000, 65) >>

Ascending(list) ==
    \A i, j \in 1..Len(list) : i < j => Rank(list[i]) < Rank(list[j])

\* C14: get_regions and get_states return the labels of their column, each
\* once, in ascending order, and nothing else: no missing value is in the
\* list, and the call returns (it does not raise).
C14_SortedDistinctLabels ==
    (page \in {"get_regions", "get_states"}) =>
        LET col == IF page = "get_regions" THEN "region" ELSE "state_name"
            present == ColUnique(w.table, col) \ {NaNLabel}
        IN  /\ ~raised
            /\ out # << >>
            /\ Elems(out[1]) = present
            /\ Len(out[1]) = Cardinality(present)
            /\ Ascending(out[1])

\* C15: get_districts(state) returns, in ascending order and each once,
\* exactly the district labels of the rows whose state_name equals state,
\* and those of all rows when no state is given (None, or the empty string,
\* which `if state:` treats alike); so the result is a subset of
\* get_districts(None), and empty for a state that occurs in no row.
C15_Districts ==
    (page = "get_districts") =>
        LET state == w.state
            rows == { i \in 1..Len(df) : Truthy(state) => df[i].state_name = state }
            expected == { df[i].district_name : i \in rows }
        IN  /\ ~raised
            /\ Elems(out[1]) = expected
            /\ Len(out[1]) = Cardinality(expected)
            /\ Ascending(out[1])
            /\ Elems(out[1]) \subseteq Elems(get_districts(df, None))
            /\ ~Truthy(state) => Elems(out[1]) = ColUnique(df, "district_name")
            /\ (Truthy(state) /\ state \notin ColUnique(df, "state_name")) =>
                   out[1] = << >>

C15_Witness ==
    /\ page = "get_districts"
    /\ Len(df) = 3
    /\ df[1].district_name = "Patna"
    /\ w.state = "Bihar"
    /\ out = << << "Gaya", "Patna" >> >>

\* The denominators of the ratio metrics of the Predictions page: deposit
\* per office and deposit per account over the similar records.
RatioDenominators ==
    {"similar_records.no_of_offices.sum", "similar_records.no_of_accounts.sum",
     "similar.no_of_offices.sum"}

\* C16: no ratio metric is evaluated with a zero denominator: every
\* denominator a page divided by to form a ratio metric was non-zero (a zero
\* replaced by the fallback 1 before the division).
C16_GuardedDenominators ==
    \A d \in denoms : d.name \in RatioDenominators => ~d.zero

\* row a comes before row b in a selection by column `by`.
Before(a, b, by, ascending) ==
    \/ IF ascending THEN a[by] < b[by] ELSE a[by] > b[by]
    \/ a[by] = b[by] /\ a.rid < b.rid

\* C17: a Top-N / Bottom-N selection returns min(N, number of rows) rows of
\* the table, the first N in the order of the column with rows of equal
\* value in their original row order; top-2 by deposit of the example table
\* is the Urban row, then the second Rural row.
C17_TopNStable ==
    (page = "top_n") =>
        LET t == w.table
            res == out[1]
        IN  /\ Len(res) = (IF w.n < Len(t) THEN w.n ELSE Len(t))
            /\ \A i \in 1..Len(res) : \E j \in 1..Len(t) : t[j] = res[i]
            /\ \A i, j \in 1..Len(res) :
                   i < j => Before(res[i], res[j], w.by, w.ascending)
            /\ \A i \in 1..Len(res), j \in 1..Len(t) :
                   (\A k \in 1..Len(res) : res[k] # t[j]) =>
                       Before(res[i], t[j], w.by, w.ascending)
            /\ (t = ExampleTable /\ w.n = 2 /\ ~w.ascending) =>
                   res = << ExampleTable[3], ExampleTable[2] >>

\* The sum of a field over the groups of an aggregation.
RECURSIVE GroupTotal(_, _, _)
GroupTotal(res, G, field) ==
    IF G = {} THEN 0
    ELSE LET g == CHOOSE x \in G : TRUE
         IN  res[g][field] + GroupTotal(res, G \ {g}, field)

\* v is the median of the deposits of the rows at positions S of table t.
IsMedian(t, S, v) ==
    LET c == Cardinality(S)
        below(i) == Cardinality({ k \in S : t[k].deposit_amount < t[i].deposit_amount })
        above(i) == Cardinality({ k \in S : t[k].deposit_amount > t[i].deposit_amount })
    IN  IF c % 2 = 1
        THEN \E i \in S : /\ 2 * below(i) < c /\ 2 * above(i) < c
                           /\ v = Int2F(t[i].deposit_amount)
        ELSE \E i, j \in S :
                /\ i # j
                /\ 2 * below(i) < c /\ 2 * above(i) <= c
                /\ 2 * below(j) <= c /\ 2 * above(j) < c
                /\ t[i].deposit_amount <= t[j].deposit_amount
                /\ v = Frac(t[i].deposit_amount + t[j].deposit_amount, 2)

\* C19: the aggregation has one entry per group present in the table; its
\* count, sum, mean and median are those of the deposit amounts of exactly
\* the rows of the group (mean and median to two decimals); the counts add
\* up to the row count and the sums to the total; the table has the rows
\* it had, in their order.
C19_GroupBy ==
    (page = "groupby") =>
        LET t == w.table
            res == out[1]
            rowsOf(g) == { i \in 1..Len(t) : t[i][w.by] = g }
        IN  /\ DOMAIN res = ColUnique(t, w.by)
            /\ \A g \in DOMAIN res :
                   /\ res[g].count = Cardinality(rowsOf(g))
                   /\ res[g].sum = SumAt(t, rowsOf(g), "deposit_amount")
                   /\ res[g].mean
                        = Round2(Frac(SumAt(t, rowsOf(g), "deposit_amount"),
                                      Cardinality(rowsOf(g))))
                   /\ \E v \in { Int2F(t[i].deposit_amount) : i \in rowsOf(g) }
                              \cup { Frac(t[i].deposit_amount + t[j].deposit_amount, 2) :
                                       i \in rowsOf(g), j \in rowsOf(g) } :
                          IsMedian(t, rowsOf(g), v) /\ res[g].median = Round2(v)
            /\ GroupTotal(res, DOMAIN res, "count") = Len(t)
            /\ GroupTotal(res, DOMAIN res, "sum") = ColSum(t, "deposit_amount")
            /\ df = t

C19_Witness ==
    /\ page = "groupby"
    /\ w.by = "region"
    /\ Len(df) = 3
    /\ "West" \notin DOMAIN out[1]
    /\ out[1]["East"] = [count |-> 3, sum |-> 3500, mean |-> Frac(116667, 100),
                         median |-> Int2F(1000)]

\* A table is non-degenerate when it has two rows or more and none of the
\* columns is constant.
NonDegenerate(t, columns) ==
    /\ Len(t) >= 2
    /\ \A c \in Elems(columns) : Cardinality(ColUnique(t, c)) >= 2

\* C20: the correlation matrix over no_of_offices, no_of_accounts and
\* deposit_amount of a non-degenerate table is symmetric and has 1.0 on
\* every diagonal entry; every entry is a number in [-1, 1].
C20_CorrSymmetric ==
    (page = "corr" /\ NonDegenerate(w.table, w.columns)) =>
        LET m == out[1]
            cols == Elems(w.columns)
        IN  /\ DOMAIN m = cols \X cols
            /\ \A a \in cols, b \in cols : m[a, b] = m[b, a]
            /\ \A a \in cols : m[a, a] = CorrOne
            /\ \A a \in cols, b \in cols :
                   /\ m[a, b].k = "fin"
                   /\ m[a, b].sq.n <= m[a, b].sq.d

C20_Witness ==
    /\ page = "corr"
    /\ w.table = ExampleTable
    /\ out[1]["no_of_offices", "no_of_offices"] = CorrOne
    /\ out[1]["deposit_amount", "no_of_offices"].sign = 1
    /\ out[1]["deposit_amount", "no_of_offices"]
         = out[1]["no_of_offices", "deposit_amount"]
    /\ out[1]["deposit_amount", "no_of_offices"] # CorrOne

\* The warnings a page section shows in place of a result.
Warnings == { Msg("No similar records found"), Msg("No matching districts found") }

\* C21: when the EDA filters select no row, or a ratio of the Predictions
\* page has a zero denominator, the section shows a warning and computes
\* nothing further on that data (no statistics, no estimate), and no
\* exception leaves the script.
C21_WarnAndHalt ==
    /\ (page = "EDA" /\ filtered_df[1] = << >>) =>
           /\ msgs \cap Warnings # {}
           /\ stats = << >>
           /\ ~raised
    /\ (page = "Predictions"
          /\ \E d \in denoms : d.name \in RatioDenominators /\ d.zero) =>
           /\ msgs \cap Warnings # {}
           /\ predicted_deposit = << >>
           /\ ~raised


\* C24: whenever the Predictions button handler computes an estimate, the
\* office total and the account total of the matching records, the two
\* numbers it divides by, are non-zero; every table here has office counts
\* >= 1 and account counts and deposits >= 0.
C24_NonZeroTotals ==
    (page = "Predictions" /\ predicted_deposit # << >>) =>
        /\ \A i \in 1..Len(df) :
             df[i].no_of_offices >= 1 /\ df[i].no_of_accounts >= 0
               /\ df[i].deposit_amount >= 0
        /\ LET S == Matching(df, w.population_group, w.region)
           IN  /\ S # {}
               /\ SumAt(df, S, "no_of_offices") # 0
               /\ SumAt(df, S, "no_of_accounts") # 0
        /\ \A d \in denoms :
             d.name \in {"similar_records.no_of_offices.sum",
                         "similar_records.no_of_accounts.sum"} => ~d.zero


\* filter_data called with one criterion only.
ByPopulation(t, c) == filter_data(t, c.population_group, None, None).filtered_df
ByRegion(t, c) == filter_data(t, None, c.region, None).filtered_df
ByState(t, c) == filter_data(t, None, None, c.state).filtered_df

\* C28: filtering the result of filter_data again by the same criteria
\* returns it unchanged, and the three criteria applied in three successive
\* calls, in each of the six orders, give the table one call with all of
\* them gives (same rows, same index labels, same order).
C28_IdempotentAnyOrder ==
    (page = "filter_data") =>
        LET f == filtered_df[1]
        IN  /\ filter_data(f, w.population_group, w.region, w.state).filtered_df = f
            /\ ByState(ByRegion(ByPopulation(df, w), w), w) = f
            /\ ByRegion(ByState(ByPopulation(df, w), w), w) = f
            /\ ByState(ByPopulation(ByRegion(df, w), w), w) = f
            /\ ByPopulation(ByState(ByRegion(df, w), w), w) = f
            /\ ByRegion(ByPopulation(ByState(df, w), w), w) = f
            /\ ByPopulation(ByRegion(ByState(df, w), w), w) = f

\* Three active criteria select one row of the example table.
C28_Witness ==
    /\ page = "filter_data"
    /\ df = ExampleTable
    /\ w = [population_group |-> "Rural", region |-> "East", state |-> "Bihar"]
    /\ filtered_df = << SubSeq(ExampleTable, 1, 1) >>
    /\ ByRegion(df, w) # df /\ ByState(ByRegion(df, w), w) = filtered_df[1]


\* C29: in the Scenario Comparison section the estimate of each scenario is
\* s_offices * (sum of deposits / sum of offices) over the records of the
\* scenario's population group and region, and the mean deposit of the
\* whole table when no record matches; another account count gives the
\* same result, and no scenario shows "no similar records".
C29_ScenarioEstimate ==
    (page = "Predictions" /\ ~raised) =>
        /\ Len(scenarios) = Len(scen)
        /\ \A i \in 1..Len(scen) :
             LET S == Matching(df, scen[i].s_pop_group, scen[i].s_region)
             IN  /\ S # {} =>
                       scenarios[i].s_prediction
                         = << Frac(scen[i].s_offices * SumAt(df, S, "deposit_amount"),
                                   SumAt(df, S, "no_of_offices")) >>
                 /\ S = {} =>
                       scenarios[i].s_prediction
                         = << Frac(SumAt(df, 1..Len(df), "deposit_amount"), Len(df)) >>
                 /\ \A other \in {1, scen[i].s_accounts + 1} :
                       Scenario(df, [scen[i] EXCEPT !.s_accounts = other]).s_prediction
                         = scenarios[i].s_prediction
                 /\ Msg("No similar records found") \notin scenarios[i].msgs

\* On the example table the first scenario, set to Rural / East with 3
\* offices, is estimated at 3 * 3000 / 5 = 1800, and the second, left at
\* Metropolitan / East where no record matches, at the mean deposit 4000.
C29_Witness ==
    /\ page = "Predictions"
    /\ df = ExampleTable
    /\ Len(scen) = 2
    /\ scen[1].s_pop_group = "Rural" /\ scen[1].s_region = "East"
    /\ scen[1].s_offices = 3
    /\ scenarios[1].s_prediction = << Int2F(1800) >>
    /\ Matching(df, scen[2].s_pop_group, scen[2].s_region) = {}
    /\ scenarios[2].s_prediction = << Int2F(4000) >>


\* C30: for every table with office counts >= 1 and account counts and
\* deposits >= 0, each numeric widget is created with its default inside
\* its range: 1 <= int(mean offices) <= max offices and
\* 1 <= int(mean accounts) <= max accounts on the Predictions page, and
\* 5 <= 15 <= number of model rows for the top-N slider of the Models page,
\* so that neither page raises when it creates them.
C30_DefaultsInRange ==
    /\ (page = "Predictions" /\ Len(df) > 0) =>
          /\ 1 <= IntOf(ColMean(df, "no_of_offices"))
          /\ IntOf(ColMean(df, "no_of_offices")) <= ColMax(df, "no_of_offices")
          /\ 1 <= IntOf(ColMean(df, "no_of_accounts"))
          /\ IntOf(ColMean(df, "no_of_accounts")) <= ColMax(df, "no_of_accounts")
          /\ ~raised
    /\ (page = "Models") =>
          /\ MinTopN <= DefaultTopN /\ DefaultTopN <= w.rows
          /\ ~raised

(* ======================= claims checked in SetupSpec =================== *)
OptionalFiles ==
    {"reports/model_results/project_summary.json",
     "reports/model_results/data_storytelling_insights.txt"}

\* C18: check_setup exits with status 0 exactly when the interpreter is
\* Python 3.8 or later, every package imports, every required data file
\* and every app file exists, and with status 1 otherwise; whether the
\* optional files exist does not change the status.
C18_ExitStatus ==
    (page = "check_setup") =>
        LET present ==
                /\ w.version[1] = 3 /\ w.version[2] >= 8
                /\ \A p \in Elems(required) : w.imports[p] = "ok"
                /\ (DataFiles \ OptionalFiles) \subseteq w.files
                /\ Elems(app_files) \subseteq w.app
        IN  /\ out[1] \in {0, 1}
            /\ (out[1] = 0) <=> present
            /\ main([w EXCEPT !.files = @ \cup OptionalFiles]).status = out[1]
            /\ main([w EXCEPT !.files = @ \ OptionalFiles]).status = out[1]

C18_Witness ==
    /\ page = "check_setup"
    /\ out = << 0 >>
    /\ w.files = DataFiles \ OptionalFiles
    /\ w.version = << 3, 8 >>

\* The loaders the pages cannot do without: the three tables and the three
\* models.
RequiredLoaders == TableKinds \cup ModelNames

\* The state of a loader's file in the project tree check_setup looked at.
FileStateIn(files, a) == IF LoaderPath[a] \in files THEN "ok" ELSE "missing"

\* C25: when check_setup's data-file check passes, the file of every
\* required loader exists, so that each of them, called on the same project
\* tree, returns its artifact and not None.
C25_CheckedFilesCoverLoaders ==
    (page = "check_setup" /\ check_file_structure(w.files)) =>
        \A a \in RequiredLoaders :
            /\ LoaderPath[a] \in w.files
            /\ ~LoaderBody(a, FileStateIn(w.files, a)).value.none
(* ========================= claims checked in Spec ====================== *)
\* What a loader returns while the file is as it is: the file's content,
\* or None when the read fails.
Loaded(a) == IF fstate[a] = "ok" THEN OnDisk(a) ELSE PyNone

\* C7: every call of a table loader returns the content the first call
\* returned, and a populated cache entry keeps that content, whatever
\* scripts ran in between, the Geographic page's df['metric'] assignment
\* included.
C7_LoadIdempotent ==
    /\ \A i \in 1..Len(rets) :
         rets[i].loader \in TableKinds => rets[i].value = Loaded(rets[i].loader)
    /\ \A k \in TableKinds : cache[k].filled => cache[k].value = Loaded(k)

C7_Witness ==
    /\ "cleaned" \in assigned
    /\ page = "EDA"
    /\ rets[1].hit
    /\ rets[1].value = OnDisk("cleaned")
    /\ df = ExampleTable

\* C8 as claimed: a call served from the cache hands out the very object
\* handed out before.
C8_SameObject ==
    \A i \in 1..Len(rets) :
        (rets[i].loader \in TableKinds /\ rets[i].hit) => ~rets[i].fresh

\* C8 amended: every call of a table loader returns a table of the same
\* content, and every call that returns a table returns a new object (the
\* first the one just read, later ones copies unpickled from the entry),
\* never the object the cache holds; only None is the same object each time.
C8_EqualCopy ==
    \A i \in 1..Len(rets) :
        rets[i].loader \in TableKinds =>
            /\ rets[i].value = Loaded(rets[i].loader)
            /\ rets[i].fresh = ~rets[i].value.none
            /\ ~rets[i].shared

C8_Witness ==
    /\ page = "Predictions"
    /\ Len(rets) = 4 + MinScenarios
    /\ ~rets[1].hit /\ rets[1].fresh
    /\ rets[2].hit /\ rets[2].fresh
    /\ rets[2].value = rets[1].value

\* C9: over any sequence of script runs no artifact file is read from disk
\* more than once.
C9_ReadOnce == \A a \in Artifacts : reads[a] <= 1

\* C10: a loader whose file is missing, malformed or unreadable returns
\* None, its error message is rendered, and no exception leaves it; this
\* holds for each of the loaders.
C10_Unavailable ==
    \A i \in 1..Len(rets) :
        fstate[rets[i].loader] # "ok" =>
            /\ rets[i].value = PyNone
            /\ ErrorMsg(rets[i].loader) \in rets[i].msgs
            /\ ErrorMsg(rets[i].loader) \in msgs
            /\ ~rets[i].raised
            /\ ~raised

C10_Witness ==
    /\ page = "Models"
    /\ fstate["extra_trees"] = "malformed"
    /\ Len(rets) = 3
    /\ rets[2].loader = "extra_trees"
    /\ rets[2].value.none
    /\ ErrorMsg("extra_trees") \in msgs
    /\ ~raised

\* The page scripts, and the table each of them guards with
\* `if df is None: st.error(...); st.stop()` right after loading it.
GuardedTable ==
    [EDA |-> "cleaned", Models |-> "model_comparison", Predictions |-> "cleaned",
     Geographic |-> "cleaned", Interpretability |-> "featured",
     Clustering |-> "featured"]

\* What a stopped render shows: the loader's error and the page's own.
StopOutput(a) == {ErrorMsg(a), Msg("Unable to load data")}

\* C11 as claimed: on every page, a table loader returning None stops the
\* render, and nothing but the error messages is rendered.
C11_StopOnUnavailable ==
    \A i \in 1..Len(rets) :
        (page # "loader" /\ rets[i].loader \in TableKinds /\ rets[i].value.none) =>
            /\ stopped
            /\ msgs = StopOutput(rets[i].loader)

\* C11 amended: on the EDA, Models, Predictions, Geographic, Interpretability
\* and Clustering pages, when the table loaded at the top of the script is
\* unavailable the render stops there: no further loader is called, nothing
\* is computed and only the error messages are rendered.  The Insights page
\* and the prediction section of the Models page do not stop: they render
\* on and leave out only what depends on the unavailable table.
C11_StopAtGuard ==
    /\ (page \in DOMAIN GuardedTable /\ rets[1].value.none) =>
            /\ stopped /\ ~raised
            /\ Len(rets) = 1
            /\ msgs = StopOutput(GuardedTable[page])
            /\ df = << >> /\ filtered_df = << >> /\ stats = << >>
            /\ predicted_deposit = << >> /\ metric = << >>
    /\ (page \in DOMAIN GuardedTable /\ ~rets[1].value.none) => ~stopped
    /\ (page = "Insights" /\ rets[2].value.none) =>
            /\ ~stopped /\ ~raised
            /\ Msg("Executive Summary") \in msgs
            /\ Msg("Regional Disparities") \notin msgs
    /\ (page = "Models" /\ ~rets[1].value.none /\ rets[3].value.none) =>
            /\ ~stopped /\ ~raised
            /\ Msg("Model Comparison Summary") \in msgs
            /\ Msg("Model Predictions Analysis") \notin msgs

C11_Witness ==
    /\ page = "Geographic"
    /\ fstate["cleaned"] = "missing"
    /\ stopped
    /\ msgs = StopOutput("cleaned")

\* C12: every call load_best_model(name) returns the model of that name's
\* own .pkl file, or None with the error message of that name when the file
\* is missing or cannot be deserialized, and raises nothing; over any
\* sequence of calls the file of a name is deserialized at most once, and
\* the entry of each name holds that name's model.
C12_ModelPerName ==
    /\ \A i \in 1..Len(rets) :
         rets[i].loader \in ModelNames =>
            /\ rets[i].value = Loaded(rets[i].loader)
            /\ ~rets[i].value.none => rets[i].value.artifact = rets[i].loader
            /\ rets[i].value.none => ErrorMsg(rets[i].loader) \in msgs
            /\ ~rets[i].raised
    /\ \A name \in ModelNames :
         /\ loads[name] <= 1
         /\ cache[name].filled => cache[name].value = Loaded(name)

C12_Witness ==
    /\ page = "loader"
    /\ rets[1].loader = "gradient_boosting"
    /\ rets[1].hit
    /\ rets[1].value = OnDisk("gradient_boosting")
    /\ cache["extra_trees"].filled
    /\ loads["gradient_boosting"] = 1

\* C13: after a page render the table the script obtained from its loader
\* has the columns and rows it was loaded with: no column was assigned to
\* it, and its rows are the rows of the file.
C13_NoInPlaceMutation ==
    (phase = "ran" /\ Len(rets) > 0 /\ rets[1].loader \in TableKinds
       /\ ~rets[1].value.none) =>
        /\ metric = << >>
        /\ rets[1].value = OnDisk(rets[1].loader)


\* C23: no page render calls a loaded model: every operation a script
\* applies to a value load_best_model returned is an availability check
\* (the Models page), and a Predictions render loads no model at all and
\* computes its estimate from the matching records of the table alone,
\* whatever the state of the model files and of the model cache.
C23_NoInference ==
    /\ \A u \in uses : u.artifact \in ModelNames => u.op \in Checks
    /\ (page = "Predictions") =>
          /\ \A i \in 1..Len(rets) : rets[i].loader \notin ModelNames
          /\ \A u \in uses : u.artifact = "cleaned"
          /\ (predicted_deposit # << >>) =>
               LET S == Matching(df, w.population_group, w.region)
               IN  predicted_deposit
                     = << Blend(w.no_of_offices, w.no_of_accounts,
                                SumAt(df, S, "deposit_amount"),
                                SumAt(df, S, "no_of_offices"),
                                SumAt(df, S, "no_of_accounts")) >>

\* The Models page loaded the model, found it available and rendered the
\* prediction section.
C23_Witness ==
    /\ page = "Models"
    /\ Len(rets) = 3
    /\ rets[2].loader = "extra_trees"
    /\ ~rets[2].value.none
    /\ [call |-> 2, artifact |-> "extra_trees", op |-> "is None", none |-> FALSE] \in uses
    /\ Msg("Model Predictions Analysis") \in msgs

\* A Predictions render computed an estimate while the model file is
\* missing.
C23_EstimateWithoutModel ==
    /\ page = "Predictions"
    /\ predicted_deposit # << >>
    /\ fstate["extra_trees"] = "missing"


\* C26: in every render, whatever a script does with a value a loader
\* returned other than testing it is done on a value that is not None, and
\* after a test of that value; no render ends in an exception raised by a
\* None, and a value found unavailable is used no further.
C26_CheckedBeforeUse ==
    /\ \A u \in uses :
         u.op \notin Checks =>
            /\ ~u.none
            /\ \E c \in uses : c.call = u.call /\ c.op \in Checks
    /\ \A i \in 1..Len(rets) :
         (page # "loader" /\ rets[i].value.none) =>
            \A u \in uses : u.call = i => u.op \in Checks
    /\ (page \in DOMAIN GuardedTable \cup {"Insights"}) => ~raised

\* The Insights page rendered with the table unavailable and the narrative
\* there: the table was tested and left alone, the narrative displayed.
C26_Witness ==
    /\ page = "Insights"
    /\ rets[2].value.none
    /\ ~rets[1].value.none
    /\ [call |-> 2, artifact |-> "cleaned", op |-> "is None", none |-> TRUE] \in uses
    /\ [call |-> 1, artifact |-> "insights_narrative", op |-> "display", none |-> FALSE] \in uses
    /\ ~raised


(* ======================= claims checked in RetrySpec =================== *)
\* The cache holds None for loader a.
NoneCached(a) == cache[a].filled /\ cache[a].value.none

\* C27: a failed load is memoized like a successful one: a call that
\* returns None leaves None in the cache, and from then on, whatever runs
\* and even after the file has been put in place intact, every call of that
\* loader is served from the cache, returns None and reads nothing.
C27_FailureMemoized ==
    [][ /\ \A i \in 1..Len(rets') :
             (rets'[i].value.none /\ ~rets'[i].raised) =>
                 (cache'[rets'[i].loader].filled
                    /\ cache'[rets'[i].loader].value.none)
        /\ \A a \in Artifacts :
             NoneCached(a) =>
                /\ cache'[a] = cache[a]
                /\ loads'[a] = loads[a]
                /\ \A i \in 1..Len(rets') :
                     rets'[i].loader = a =>
                        /\ rets'[i].hit
                        /\ rets'[i].value = PyNone ]_vars

\* The table's file was repaired after a failed load, and the EDA page,
\* rendered again, still gets None from the cache and stops.
C27_Witness ==
    /\ page = "EDA"
    /\ fstate["cleaned"] = "ok"
    /\ rets[1].loader = "cleaned"
    /\ rets[1].hit
    /\ rets[1].value = PyNone
    /\ stopped
====
